---- MODULE Spec2Model ----
(***************************************************************************)
(* Model of supabase/functions/clerk-webhooks-2/index.ts: the Deno.serve   *)
(* handler that turns Clerk webhook events into inserts and updates of a   *)
(* Supabase store.                                                         *)
(*                                                                         *)
(* A request runs in the segments that its awaits cut the handler into:    *)
(*   Start      lines 51-67, up to `await req.json()`                      *)
(*   ParseBody  lines 67-218, from the parsed body up to the awaited store *)
(*              call of the branch (or a return, or an exception)          *)
(*   StoreExec  the store executes the issued call as one statement        *)
(*   Respond    the lines after the await: the result becomes a Response   *)
(* JavaScript runs each segment to completion, so each is one action.      *)
(* The request body is a stream that only req.json() consumes: its content *)
(* is drawn when it is read.                                               *)
(***************************************************************************)
EXTENDS Integers, Sequences, FiniteSets, TLC

VARIABLES
    env,       \* Deno.env: which of the three settings are set
    store,     \* the tables of the store: a set of rows each
    store0,    \* history: the store before the first request
    pc,        \* where the handler of each request stands
    headers,   \* req.headers: the svix headers the request carries
    payload,   \* what req.json() read, None before
    call,      \* the store call the handler awaits, None when it issued none
    result,    \* { data, error } of the awaited call
    response,  \* the Response the handler returned, None when it returned none
    thrown,    \* the exception the handler ended with, "none" otherwise
    steps,     \* history: what the handler did, in order
    after      \* history: the requests that had ended when this one arrived

vars == <<env, store, store0, pc, headers, payload, call, result, response,
          thrown, steps, after>>

(* ---------------------------------------------------------------- bounds *)

\* Epoch-millisecond values (and the tags of the descriptive fields) range
\* over 0..MaxTime.
MaxTime == 1

\* The requests in flight together.
Reqs == {"r1", "r2"}

\* The row keys of the events.
Ids == {"a", "b"}

None == [none |-> TRUE]

(* ------------------------------------------------------------ the inputs *)

SvixHeaders == {"svix-id", "svix-timestamp", "svix-signature"}

EnvNames == {"CLERK_WEBHOOK_SECRET", "SUPABASE_URL", "SUPABASE_SERVICE_ROLE_KEY"}

EventTypes == {"user.created", "user.updated", "organization.created",
               "organization.updated", "organizationMembership.created",
               "organizationMembership.updated"}

UnknownType == "unknown.event"

\* The optional fields of WebhookEvent.data that the handler reads.
OptFields == {"first_name", "last_name", "name", "image_url", "created_at",
              "updated_at", "organization", "public_user_data"}

Digits == <<"0", "1", "2", "3", "4", "5", "6", "7", "8", "9">>

RECURSIVE Pad(_, _)
\* n in decimal, left-padded with zeros to w digits.
Pad(n, w) ==
    IF w <= 1 /\ n < 10
    THEN Digits[n + 1]
    ELSE Pad(n \div 10, w - 1) \o Digits[(n % 10) + 1]

Str(prefix, v) == prefix \o Pad(v, 1)

\* A payload with every field present; v tags its values.
FullData(id, v) ==
    [id |-> id,
     first_name |-> Str("first", v),
     last_name |-> Str("last", v),
     name |-> Str("name", v),
     image_url |-> Str("img", v),
     created_at |-> 0,
     updated_at |-> v,
     organization |-> [id |-> Str("org", v)],
     public_user_data |-> [user_id |-> Str("usr", v)]]

\* The same payload with the fields of `absent` missing from the JSON.
DataWithout(id, v, absent) ==
    LET full == FullData(id, v)
    IN  [k \in (DOMAIN full) \ absent |-> full[k]]

AbsentSets == {{}} \cup {{f} : f \in OptFields} \cup {OptFields}

Datas ==
    {FullData(id, v) : id \in Ids, v \in 0..MaxTime}
    \cup {DataWithout(id, 0, abs) : id \in Ids, abs \in AbsentSets}

BadJson == [invalid |-> TRUE]

\* What the body of a request can hold: text that is no JSON, an event with
\* its data, an event object without data, an object without a type.
Bodies ==
    {BadJson}
    \cup {[type |-> t, data |-> d] : t \in EventTypes \cup {UnknownType}, d \in Datas}
    \cup {[type |-> t] : t \in {"user.created", UnknownType}}
    \cup {[object |-> "event"]}

(* ------------------------------------------------- new Date().toISOString *)

\* The civil date of a day count since 1970-01-01, proleptic Gregorian.
CivilFromDays(days) ==
    LET z == days + 719468
        era == z \div 146097
        doe == z - era * 146097
        yoe == (doe - doe \div 1460 + doe \div 36524 - doe \div 146096) \div 365
        doy == doe - (365 * yoe + yoe \div 4 - yoe \div 100)
        mp == (5 * doy + 2) \div 153
        d == doy - (153 * mp + 2) \div 5 + 1
        m == IF mp < 10 THEN mp + 3 ELSE mp - 9
        y == yoe + era * 400 + (IF m <= 2 THEN 1 ELSE 0)
    IN  [year |-> y, month |-> m, day |-> d]

\* new Date(ms).toISOString() for a number of epoch milliseconds ms >= 0.
ToISOString(ms) ==
    LET date == CivilFromDays(ms \div 86400000)
        hh == (ms \div 3600000) % 24
        mm == (ms \div 60000) % 60
        ss == (ms \div 1000) % 60
    IN  Pad(date.year, 4) \o "-" \o Pad(date.month, 2) \o "-" \o Pad(date.day, 2)
        \o "T" \o Pad(hh, 2) \o ":" \o Pad(mm, 2) \o ":" \o Pad(ss, 2)
        \o "." \o Pad(ms % 1000, 3) \o "Z"

\* new Date(undefined) is an invalid date, and toISOString() of it throws a
\* RangeError: the conversion is defined for the fields that are present.
CanConvert(data, field) == field \in DOMAIN data

(* ------------------------------------------------------------ the store *)

Tables == {"users", "organizations", "owners", "members"}

Columns(table) ==
    CASE table = "users" ->
           {"id", "first_name", "last_name", "avatar_url", "created_at", "updated_at"}
      [] table = "members" ->
           {"id", "user_id", "organization_id", "created_at", "updated_at"}
      [] OTHER -> {"id", "name", "updated_at"}

\* A column that holds no value.
Null == "NULL"

EmptyStore == [t \in Tables |-> {}]

\* A store that other writers have filled: one row of key "a" in each table.
SeedRow(table) ==
    [c \in Columns(table) |->
        IF c = "id" THEN "a"
        ELSE IF c \in {"created_at", "updated_at"} THEN ToISOString(0)
        ELSE "seed"]

SeedStore == [t \in Tables |-> {SeedRow(t)}]

RowsOf(s, table, id) == {row \in s[table] : row.id = id}

DuplicateKey == "duplicate key value violates unique constraint"

NoRows == "JSON object requested, multiple (or no) rows returned"

\* insert([values]).select().single(): the columns named by the keys of the
\* object literal, those whose value is undefined stored as NULL; refused when
\* a row of that key exists.
StoreInsert(s, c) ==
    LET row == [k \in c.columns |->
                   IF k \in DOMAIN c.values THEN c.values[k] ELSE Null]
    IN  IF RowsOf(s, c.table, c.values.id) # {}
        THEN [store |-> s, result |-> [error |-> DuplicateKey]]
        ELSE [store |-> [s EXCEPT ![c.table] = @ \cup {row}],
              result |-> [data |-> row]]

\* update(values).eq('id', id).select().single(): the keys whose value is
\* undefined are not part of the request and leave their columns alone;
\* single() reports an error when no row matched.
StoreUpdate(s, c) ==
    LET old == RowsOf(s, c.table, c.id)
        new(row) == [k \in DOMAIN row |->
                        IF k \in DOMAIN c.values THEN c.values[k] ELSE row[k]]
    IN  IF old = {}
        THEN [store |-> s, result |-> [error |-> NoRows]]
        ELSE LET row == CHOOSE r \in old : TRUE
             IN  [store |-> [s EXCEPT ![c.table] = (@ \ old) \cup {new(row)}],
                  result |-> [data |-> new(row)]]

\* The store executes one call as one statement.
StoreApply(s, c) ==
    IF c.op = "insert" THEN StoreInsert(s, c) ELSE StoreUpdate(s, c)

(* ---------------------------------------------------------- the handler *)

Text(status, text) == [status |-> status, body |-> [text |-> text]]

Json(status, body) == [status |-> status, body |-> body]

\* The methods of the query builder that supabase.from(table) returns
\* (supabase-js 2.39.3): calling any other name is a TypeError.
QueryBuilderMethods == {"select", "insert", "upsert", "update", "delete"}

\* The switch on event.type: the method called on supabase.from(table) and the
\* keys of the object literal passed to it.
Route(type) ==
    CASE type = "user.created" ->
           [method |-> "insert", table |-> "users",
            keys |-> {"id", "first_name", "last_name", "avatar_url",
                      "created_at", "updated_at"}]
      [] type = "user.updated" ->
           [method |-> "update", table |-> "users",
            keys |-> {"first_name", "last_name", "avatar_url", "updated_at"}]
      [] type = "organization.created" ->
           [method |-> "create", table |-> "organizations",
            keys |-> {"id", "name", "updated_at"}]
      [] type = "organization.updated" ->
           [method |-> "update", table |-> "owners",
            keys |-> {"name", "updated_at"}]
      [] type = "organizationMembership.created" ->
           [method |-> "insert", table |-> "members",
            keys |-> {"id", "user_id", "organization_id", "created_at",
                      "updated_at"}]
      [] type = "organizationMembership.updated" ->
           [method |-> "update", table |-> "members",
            keys |-> {"user_id", "organization_id", "updated_at"}]

\* The field of event.data that the value of a key is read from.
FieldOf(key) ==
    CASE key = "avatar_url" -> "image_url"
      [] key = "user_id" -> "public_user_data"
      [] key = "organization_id" -> "organization"
      [] OTHER -> key

TimeKeys == {"created_at", "updated_at"}

\* The value of a key whose field is present.
ValueOf(data, key) ==
    CASE key \in TimeKeys -> ToISOString(data[key])
      [] key = "user_id" -> data.public_user_data.user_id
      [] key = "organization_id" -> data.organization.id
      [] OTHER -> data[FieldOf(key)]

\* The object literal as JSON.stringify sends it: a key whose value is
\* undefined is left out.
Literal(data, keys) ==
    [k \in {c \in keys : FieldOf(c) \in DOMAIN data} |-> ValueOf(data, k)]

Throw(error, trail) == [kind |-> "throw", error |-> error, steps |-> trail]

Return(resp, trail) == [kind |-> "respond", response |-> resp, steps |-> trail]

\* Start with the two checks in the other order: the headers before the secret.
StartHeadersFirst(e, h) ==
    IF h # SvixHeaders
    THEN Return(Text(400, "Error occured -- no svix headers"), <<"headers">>)
    ELSE IF ~e["CLERK_WEBHOOK_SECRET"]
    THEN Return(Text(500, "Webhook secret not configured"),
                <<"headers", "env:secret">>)
    ELSE [kind |-> "await", steps |-> <<"headers", "env:secret", "req.json">>]

\* Start with && for || in the header test: 400 only when all three are missing.
StartAllMissing(e, h) ==
    IF ~e["CLERK_WEBHOOK_SECRET"]
    THEN Return(Text(500, "Webhook secret not configured"), <<"env:secret">>)
    ELSE IF h = {}
    THEN Return(Text(400, "Error occured -- no svix headers"),
                <<"env:secret", "headers">>)
    ELSE [kind |-> "await", steps |-> <<"env:secret", "headers", "req.json">>]

\* Lines 51-67: the secret, then the three headers, then `await req.json()`.
Start(e, h) ==
    IF ~e["CLERK_WEBHOOK_SECRET"]
    THEN Return(Text(500, "Webhook secret not configured"), <<"env:secret">>)
    ELSE IF h # SvixHeaders
    THEN Return(Text(400, "Error occured -- no svix headers"),
                <<"env:secret", "headers">>)
    ELSE [kind |-> "await", steps |-> <<"env:secret", "headers", "req.json">>]

\* A case of the switch, lines 84-211: the arguments of the call are evaluated
\* (event.data.id, the timestamps), the method is called, the call is awaited.
Branch(event) ==
    LET route == Route(event.type)
        trail == <<"stringify", "env:supabase", "createClient", "switch">>
    IN  IF "data" \notin DOMAIN event
        THEN Throw("TypeError", trail)
        ELSE IF \E k \in route.keys \cap TimeKeys : ~CanConvert(event.data, k)
        THEN Throw("RangeError", trail)
        ELSE IF route.method \notin QueryBuilderMethods
        THEN Throw("TypeError", trail)
        ELSE [kind |-> "call",
              call |-> [branch |-> event.type,
                        op |-> route.method,
                        table |-> route.table,
                        columns |-> route.keys,
                        values |-> Literal(event.data, route.keys),
                        id |-> event.data.id],
              steps |-> trail \o <<"store">>]

\* Lines 67-218, from the body that req.json() read to the awaited store call.
Dispatch(e, body) ==
    IF body = BadJson
    THEN Throw("SyntaxError", <<>>)
    ELSE IF ~e["SUPABASE_URL"] \/ ~e["SUPABASE_SERVICE_ROLE_KEY"]
    THEN Return(Text(500, "Supabase credentials not configured"),
                <<"stringify", "env:supabase">>)
    ELSE IF "type" \in DOMAIN body /\ body.type \in EventTypes
    THEN Branch(body)
    ELSE Return(Json(200, [success |-> TRUE]),
                <<"stringify", "env:supabase", "createClient", "switch", "console.log">>)

\* The lines after the awaited call of a branch: error or record.
MapResult(c, res) ==
    IF "error" \in DOMAIN res
    THEN Return(Json(500, [error |-> res.error]), <<"console.error">>)
    ELSE IF c.branch \in {"user.created", "user.updated"}
    THEN Return(Json(200, [user |-> res.data]), <<>>)
    ELSE Return(Json(200, [data |-> res.data]), <<>>)

\* One request handled alone against store s: what it leaves in the store,
\* the Response it returns, the exception it ends with.
Handle(s, e, h, body) ==
    LET a == Start(e, h)
        d == Dispatch(e, body)
        x == StoreApply(s, d.call)
    IN  IF a.kind = "respond"
        THEN [store |-> s, response |-> a.response, thrown |-> "none"]
        ELSE IF d.kind = "throw"
        THEN [store |-> s, response |-> None, thrown |-> d.error]
        ELSE IF d.kind = "respond"
        THEN [store |-> s, response |-> d.response, thrown |-> "none"]
        ELSE [store |-> x.store,
              response |-> MapResult(d.call, x.result).response,
              thrown |-> "none"]

(* ------------------------------------------------------ the state machine *)

Init ==
    /\ env \in [EnvNames -> BOOLEAN]
    /\ store \in {EmptyStore, SeedStore}
    /\ store0 = store
    /\ pc = [r \in Reqs |-> "idle"]
    /\ headers = [r \in Reqs |-> {}]
    /\ payload = [r \in Reqs |-> None]
    /\ call = [r \in Reqs |-> None]
    /\ result = [r \in Reqs |-> None]
    /\ response = [r \in Reqs |-> None]
    /\ thrown = [r \in Reqs |-> "none"]
    /\ steps = [r \in Reqs |-> <<>>]
    /\ after = [r \in Reqs |-> {}]

Finished(r) == pc[r] \in {"done", "thrown"}

\* How a segment of the handler ends: a returned Response, an exception, or
\* the next await.
Finish(r, o, next) ==
    /\ steps' = [steps EXCEPT ![r] = @ \o o.steps]
    /\ pc' = [pc EXCEPT ![r] =
                 CASE o.kind = "respond" -> "done"
                   [] o.kind = "throw" -> "thrown"
                   [] OTHER -> next]
    /\ response' = [response EXCEPT ![r] =
                       IF o.kind = "respond" THEN o.response ELSE @]
    /\ thrown' = [thrown EXCEPT ![r] = IF o.kind = "throw" THEN o.error ELSE @]

\* A request arrives with headers h and the handler runs to its first await.
Receive(r) ==
    /\ pc[r] = "idle"
    /\ after' = [after EXCEPT ![r] = {q \in Reqs : Finished(q)}]
    /\ \E h \in SUBSET SvixHeaders :
          /\ headers' = [headers EXCEPT ![r] = h]
          /\ Finish(r, Start(env, h), "json")
    /\ UNCHANGED <<env, store, store0, payload, call, result>>

\* req.json() has read the body; the handler runs to the store call it awaits.
ParseBody(r) ==
    /\ pc[r] = "json"
    /\ \E body \in Bodies :
          LET o == Dispatch(env, body)
          IN  /\ payload' = [payload EXCEPT ![r] = body]
              /\ call' = [call EXCEPT ![r] = IF o.kind = "call" THEN o.call ELSE @]
              /\ Finish(r, o, "store")
    /\ UNCHANGED <<env, store, store0, headers, result, after>>

\* StoreExec with { data, error } kept in one binding shared by all requests
\* instead of a const of the handler's own scope.
StoreExecShared(r) ==
    /\ pc[r] = "store"
    /\ LET x == StoreApply(store, call[r])
       IN  /\ store' = x.store
           /\ result' = [q \in Reqs |-> x.result]
    /\ pc' = [pc EXCEPT ![r] = "resume"]
    /\ UNCHANGED <<env, store0, headers, payload, call, response, thrown, steps, after>>

\* The store executes the call of request r and answers it.
StoreExec(r) ==
    /\ pc[r] = "store"
    /\ LET x == StoreApply(store, call[r])
       IN  /\ store' = x.store
           /\ result' = [result EXCEPT ![r] = x.result]
    /\ pc' = [pc EXCEPT ![r] = "resume"]
    /\ UNCHANGED <<env, store0, headers, payload, call, response, thrown, steps, after>>

\* The handler resumes with the result of its call and returns the Response.
Respond(r) ==
    /\ pc[r] = "resume"
    /\ Finish(r, MapResult(call[r], result[r]), "done")
    /\ UNCHANGED <<env, store, store0, headers, payload, call, result, after>>

Next ==
    \E r \in Reqs :
        \/ Receive(r)
        \/ ParseBody(r)
        \/ StoreExec(r)
        \/ Respond(r)

Spec == Init /\ [][Next]_vars

(* ------------------------------------------------------------ the claims *)

SecretSet == env["CLERK_WEBHOOK_SECRET"]

CredentialsSet == env["SUPABASE_URL"] /\ env["SUPABASE_SERVICE_ROLE_KEY"]

Status(r) == IF "status" \in DOMAIN response[r] THEN response[r].status ELSE 0

\* The body was read and is an event with its data.
IsEvent(r) == "type" \in DOMAIN payload[r] /\ "data" \in DOMAIN payload[r]

\* An event whose data has every field.
IsFullEvent(r) == IsEvent(r) /\ OptFields \subseteq DOMAIN payload[r].data

\* The request passed the three checks with a body that is JSON.
ReachedSwitch(r) ==
    /\ Finished(r)
    /\ CredentialsSet
    /\ payload[r] # None
    /\ payload[r] # BadJson

\* The table that holds the records of the entity kind of an event type.
EntityTable(type) ==
    CASE type \in {"user.created", "user.updated"} -> "users"
      [] type \in {"organization.created", "organization.updated"} -> "organizations"
      [] OTHER -> "members"

CreatedTypes == {"user.created", "organization.created",
                 "organizationMembership.created"}

UpdatedTypes == EventTypes \ CreatedTypes

\* C1: every request ends with a Response returned by the handler; none ends
\* by an exception (raised while parsing the body, converting a timestamp or
\* building the store call).
C1_EveryRequestAnswered ==
    \A r \in Reqs : pc[r] # "thrown"

\* C2: with CLERK_WEBHOOK_SECRET unset every request is answered 500
\* 'Webhook secret not configured', the check of the secret being all the
\* handler did: no header read, no body parsed, no store call, store untouched.
C2_SecretUnset ==
    ~SecretSet =>
        /\ store = store0
        /\ \A r \in Reqs :
               pc[r] # "idle" =>
                   /\ pc[r] = "done"
                   /\ response[r] = Text(500, "Webhook secret not configured")
                   /\ steps[r] = <<"env:secret">>
                   /\ payload[r] = None
                   /\ call[r] = None

\* C2's case: the secret is unset, one request came without any header and
\* another with all three, and both are answered.
C2_Witness ==
    /\ ~SecretSet
    /\ \E r, q \in Reqs :
           /\ pc[r] = "done" /\ headers[r] = {}
           /\ pc[q] = "done" /\ headers[q] = SvixHeaders

\* C3 as stated: every request that misses one of the three headers is
\* answered 400 and issues no store call.
C3_MissingHeaders400 ==
    \A r \in Reqs :
        (pc[r] # "idle" /\ headers[r] # SvixHeaders) =>
            /\ pc[r] = "done"
            /\ Status(r) = 400
            /\ call[r] = None

\* C3 amended: with the secret set, every request that misses one of the three
\* headers is answered 400 'Error occured -- no svix headers' without its body
\* being read and without a store call.
C3_MissingHeaders400WhenSecretSet ==
    \A r \in Reqs :
        (pc[r] # "idle" /\ SecretSet /\ headers[r] # SvixHeaders) =>
            /\ pc[r] = "done"
            /\ response[r] = Text(400, "Error occured -- no svix headers")
            /\ payload[r] = None
            /\ call[r] = None

\* C3's case: the secret is set and a request that misses exactly one header
\* is answered.
C3_Witness ==
    /\ SecretSet
    /\ \E r \in Reqs :
           /\ pc[r] = "done"
           /\ Cardinality(headers[r]) = 2
           /\ Status(r) = 400

\* C4: with the secret and the headers present and the store URL or key
\* missing, the request is answered 500 'Supabase credentials not configured'
\* whatever its body, and issues no store call.
C4_CredentialsBeforeBody ==
    \A r \in Reqs :
        (/\ Finished(r)
         /\ SecretSet
         /\ headers[r] = SvixHeaders
         /\ ~CredentialsSet) =>
            /\ response[r] = Text(500, "Supabase credentials not configured")
            /\ call[r] = None

\* The routing table as C5 states it.
ClaimedRoute(type) ==
    CASE type \in {"user.created", "organization.created",
                   "organizationMembership.created"} ->
           [op |-> "insert", table |-> EntityTable(type)]
      [] type = "organization.updated" -> [op |-> "update", table |-> "owners"]
      [] OTHER -> [op |-> "update", table |-> EntityTable(type)]

\* C5: a request that passes the three checks issues exactly the store call of
\* the routing table for its event type, keyed by data.id, and none for any
\* other type (stated here for events whose data has every field).
C5_RoutingTable ==
    \A r \in Reqs :
        (ReachedSwitch(r) /\ IsFullEvent(r)) =>
            IF payload[r].type \in EventTypes
            THEN /\ call[r] # None
                 /\ call[r].op = ClaimedRoute(payload[r].type).op
                 /\ call[r].table = ClaimedRoute(payload[r].type).table
                 /\ call[r].id = payload[r].data.id
                 /\ payload[r].type = "organizationMembership.created" =>
                        /\ call[r].values.user_id = payload[r].data.public_user_data.user_id
                        /\ call[r].values.organization_id = payload[r].data.organization.id
            ELSE call[r] = None

\* C6: the response of a request that reaches the switch is decided by its one
\* store call: 500 {error: message} when the store reports an error, 200 with
\* the record when it succeeds, 200 {success: true} for an unrecognized type
\* (stated here for events whose data has every field).
C6_ResponseFromStoreCall ==
    \A r \in Reqs :
        (ReachedSwitch(r) /\ IsFullEvent(r)) =>
            IF payload[r].type \in EventTypes
            THEN /\ call[r] # None
                 /\ result[r] # None
                 /\ "error" \in DOMAIN result[r] =>
                        response[r] = Json(500, [error |-> result[r].error])
                 /\ "data" \in DOMAIN result[r] =>
                        /\ Status(r) = 200
                        /\ \E k \in DOMAIN response[r].body :
                               response[r].body[k] = result[r].data
            ELSE /\ call[r] = None
                 /\ response[r] = Json(200, [success |-> TRUE])

\* C7: the same *.created event delivered twice in sequence, for a key the
\* table does not hold: the first is answered 200, the second 500 with an
\* error body, and the table holds one row of that key.
C7_ReplayCreated ==
    \A r, q \in Reqs :
        (/\ r \in after[q]
         /\ ReachedSwitch(q)
         /\ IsFullEvent(r)
         /\ payload[r] = payload[q]
         /\ payload[r].type \in CreatedTypes
         /\ RowsOf(store0, EntityTable(payload[r].type), payload[r].data.id) = {}) =>
            /\ Status(r) = 200
            /\ Status(q) = 500
            /\ "error" \in DOMAIN response[q].body
            /\ Cardinality(RowsOf(store, EntityTable(payload[r].type),
                                  payload[r].data.id)) = 1

\* Request q is an X.created event that was answered 200 before r arrived.
CreatedBefore(q, r) ==
    /\ q \in after[r]
    /\ IsEvent(q)
    /\ payload[q].type \in CreatedTypes
    /\ Status(q) = 200

\* C8: an X.updated event for a key whose record exists in the table of X (as
\* it does after a successful X.created) mutates that record, in that table,
\* and is answered 200.
C8_UpdateMutatesCreatedRecord ==
    \A r \in Reqs :
        (/\ ReachedSwitch(r)
         /\ IsFullEvent(r)
         /\ payload[r].type \in UpdatedTypes
         /\ \/ RowsOf(store0, EntityTable(payload[r].type), payload[r].data.id) # {}
            \/ \E q \in Reqs :
                   /\ CreatedBefore(q, r)
                   /\ EntityTable(payload[q].type) = EntityTable(payload[r].type)
                   /\ payload[q].data.id = payload[r].data.id) =>
            /\ Status(r) = 200
            /\ call[r] # None
            /\ call[r].table = EntityTable(payload[r].type)

\* C9: a recognized event whose data has its id and lacks any of the other
\* fields still issues its store call and is answered 200 or 500 (stated here
\* for the types other than organization.created).
C9_AbsentFieldsTolerated ==
    \A r \in Reqs :
        (/\ ReachedSwitch(r)
         /\ IsEvent(r)
         /\ payload[r].type \in EventTypes \ {"organization.created"}) =>
            /\ thrown[r] = "none"
            /\ call[r] # None
            /\ Status(r) \in {200, 500}

\* The two requests handled one after the other, a then b, from the store
\* the run began with.
Sequential(a, b) ==
    LET first == Handle(store0, env, headers[a], payload[a])
        second == Handle(first.store, env, headers[b], payload[b])
    IN  [store |-> second.store, first |-> first, second |-> second]

Same(r, o) == response[r] = o.response /\ thrown[r] = o.thrown

\* Requests r and q are two updates of the same row, each received while the
\* other was in flight, both answered 200.
ConcurrentUpdates(r, q) ==
    /\ r # q
    /\ after[r] = {} /\ after[q] = {}
    /\ Finished(r) /\ Finished(q)
    /\ call[r] # None /\ call[q] # None
    /\ call[r].op = "update" /\ call[q].op = "update"
    /\ call[r].table = call[q].table
    /\ call[r].id = call[q].id
    /\ Status(r) = 200 /\ Status(q) = 200

\* Column k of the row holds what request r wrote, and request q did not
\* write that value.
FromOnly(row, k, r, q) ==
    /\ k \in DOMAIN call[r].values
    /\ row[k] = call[r].values[k]
    /\ k \in DOMAIN call[q].values => call[q].values[k] # row[k]

\* C10 as stated, its last clause: after two concurrent updates of a row, the
\* row never holds one field from one event and another field from the other.
C10_NoMixedRow ==
    \A r, q \in Reqs :
        ConcurrentUpdates(r, q) =>
            \A row \in RowsOf(store, call[r].table, call[r].id) :
                ~ \E k1, k2 \in DOMAIN row :
                      FromOnly(row, k1, r, q) /\ FromOnly(row, k2, q, r)

\* C10 amended: when both requests have ended, however their steps
\* interleaved, the responses and the store are those of one of the two
\* sequential orders; and after two concurrent updates of a row, one of them
\* (the last applied) holds every column whose field its payload carried.
C10_Linearizable ==
    /\ (\A r \in Reqs : Finished(r)) =>
           \E a, b \in Reqs :
               /\ a # b
               /\ store = Sequential(a, b).store
               /\ Same(a, Sequential(a, b).first)
               /\ Same(b, Sequential(a, b).second)
    /\ \A r, q \in Reqs :
           ConcurrentUpdates(r, q) =>
               \A row \in RowsOf(store, call[r].table, call[r].id) :
                   \E w \in {r, q} :
                       \A k \in DOMAIN call[w].values : row[k] = call[w].values[k]

\* C10's case: two updates of the same row with different values, each
\* received while the other was in flight, both answered 200.
C10_Witness ==
    \E r, q \in Reqs :
        /\ ConcurrentUpdates(r, q)
        /\ call[r].values # call[q].values

====
